---- MODULE Spec2Model ----
(***************************************************************************)
(* Model of src/capture.py: TapoCamera (capture_via_rtsp, _get_auth_token, *)
(* capture_via_http) and the orchestrator capture_image.  The camera, the  *)
(* HTTP endpoint, the clock and the file system are the environment: each  *)
(* external operation draws its answer from a small set.                   *)
(***************************************************************************)
EXTENDS Integers, Sequences, FiniteSets, TLC

\* ---------------------------------------------------------------- bounds
MaxCalls == 2          \* calls made by the driver (capture_image or direct)
SlowRead == 8000       \* duration in ms of a slow cap.read()
ClockJump == 16000     \* a step of the wall clock between lines 88 and 92, in ms

\* ------------------------------------------------------ program constants
MaxAttempts == 10      \* range(10)
TimeoutMs == 15000     \* timeout_seconds = 15
SleepMs == 200         \* time.sleep(0.2)
NumCandidates == 3     \* len(rtsp_urls)

\* ------------------------------------------------------------ input sets
Formats == {"PNG", "TIFF", "BMP", "png", "JPEG"}
Methods == {"auto", "rtsp", "http", "other"}
ReadDurations == {0, SlowRead}
\* time.time() - start_time at the first test of line 92
StartLags == {0, ClockJump}

NoFrame == [isNone |-> TRUE, h |-> 0, w |-> 0]
EmptyFrame == [isNone |-> FALSE, h |-> 0, w |-> 0]
GoodFrame == [isNone |-> FALSE, h |-> 480, w |-> 640]
\* what cap.read() can return: (ret, frame)
ReadResults ==
  { [ret |-> FALSE, frame |-> NoFrame],
    [ret |-> TRUE, frame |-> NoFrame],
    [ret |-> TRUE, frame |-> EmptyFrame],
    [ret |-> TRUE, frame |-> GoodFrame] }

\* answers of session.post(login): a transport error, or status and body
LoginResponses ==
  { [exc |-> TRUE, status |-> 0, body |-> "none", error_code |-> 0, stok |-> "None"],
    [exc |-> FALSE, status |-> 401, body |-> "json", error_code |-> 0, stok |-> "abc123"],
    [exc |-> FALSE, status |-> 200, body |-> "notjson", error_code |-> 0, stok |-> "None"],
    [exc |-> FALSE, status |-> 200, body |-> "json", error_code |-> -40401, stok |-> "None"],
    [exc |-> FALSE, status |-> 200, body |-> "json", error_code |-> 0, stok |-> "abc123"],
    [exc |-> FALSE, status |-> 200, body |-> "json", error_code |-> 0, stok |-> "None"],
    [exc |-> FALSE, status |-> 200, body |-> "json", error_code |-> 0, stok |-> ""] }

\* answers of session.post(snapshot).  payload is result.image.snapshot:
\* "missing", "empty", "badb64" (b64decode raises), "notimage" (Image.open
\* raises) or "image"; enc is the encoding of the image bytes received.
SnapBase == [exc |-> FALSE, status |-> 200, ctype |-> "", body |-> "none",
             error_code |-> 0, payload |-> "missing", enc |-> "none"]
SnapResponses ==
  { [SnapBase EXCEPT !.exc = TRUE, !.status = 0],
    [SnapBase EXCEPT !.status = 500, !.ctype = "image/jpeg", !.enc = "JPEG"],
    [SnapBase EXCEPT !.ctype = "image/jpeg", !.enc = "JPEG"],
    [SnapBase EXCEPT !.ctype = "image/png", !.enc = "PNG"],
    [SnapBase EXCEPT !.ctype = "text/html"],
    SnapBase,
    [SnapBase EXCEPT !.ctype = "application/json", !.body = "notjson"],
    [SnapBase EXCEPT !.ctype = "application/json", !.body = "json", !.error_code = -1,
                     !.payload = "image", !.enc = "JPEG"],
    [SnapBase EXCEPT !.ctype = "application/json", !.body = "json"],
    [SnapBase EXCEPT !.ctype = "application/json", !.body = "json", !.payload = "empty"],
    [SnapBase EXCEPT !.ctype = "application/json", !.body = "json", !.payload = "badb64"],
    [SnapBase EXCEPT !.ctype = "application/json", !.body = "json", !.payload = "notimage"],
    [SnapBase EXCEPT !.ctype = "application/json", !.body = "json", !.payload = "image",
                     !.enc = "JPEG"] }

\* outcomes of img.save: "raise_noopen" fails before output_path is opened,
\* "raise_nofile" after it was opened and leaves no file, "raise_partial"
\* after it was opened and leaves a partial one
SaveOutcomes == {"ok", "raise_noopen", "raise_nofile", "raise_partial"}
\* outcomes of open(output_path, 'wb') and f.write: "raise_noopen" is a failing
\* open, "raise_partial" a failing write
WriteOutcomes == {"ok", "raise_noopen", "raise_partial"}
\* outcomes of cvtColor and Image.fromarray
ConvertOutcomes == {"ok", "raise"}

\* ------------------------------------------------------- pure helpers
Msg(text, a, b) == [text |-> text, a |-> a, b |-> b]
NoMsg == Msg("", 0, 0)

\* str.upper() on the format names the model uses
Upper(s) ==
  CASE s = "png" -> "PNG"
    [] s = "PNG" -> "PNG"
    [] s = "TIFF" -> "TIFF"
    [] s = "BMP" -> "BMP"
    [] s = "JPEG" -> "JPEG"
    [] OTHER -> s

\* the if/elif chain around img.save: the encoding saved, "nosave" when no
\* branch executes
SaveFormat(fmt) ==
  IF Upper(fmt) = "PNG" THEN "PNG"
  ELSE IF Upper(fmt) = "TIFF" THEN "TIFF"
  ELSE IF Upper(fmt) = "BMP" THEN "BMP"
  ELSE "nosave"

FrameSize(f) == f.h * f.w * 3

\* ret and frame is not None and frame.size > 0
Usable(r, f) == r /\ ~f.isNone /\ FrameSize(f) > 0

\* time.time() - start_time > timeout_seconds
TimedOut(e) == e > TimeoutMs

\* truthiness of self.token ("None" stands for None)
Truthy(t) == t # "None" /\ t # ""

\* _get_auth_token without the test of error_code on line 54
GetAuthToken_IgnoresErrorCode(resp, tok) ==
  IF resp.exc THEN [ok |-> FALSE, token |-> tok]
  ELSE IF resp.status = 200
       THEN IF resp.body # "json" THEN [ok |-> FALSE, token |-> tok]
            ELSE [ok |-> TRUE, token |-> resp.stok]
       ELSE [ok |-> FALSE, token |-> tok]

\* _get_auth_token without the test of status_code on line 52
GetAuthToken_IgnoresStatus(resp, tok) ==
  IF resp.exc THEN [ok |-> FALSE, token |-> tok]
  ELSE IF resp.body # "json" THEN [ok |-> FALSE, token |-> tok]
  ELSE IF resp.error_code = 0 THEN [ok |-> TRUE, token |-> resp.stok]
  ELSE [ok |-> FALSE, token |-> tok]

\* _get_auth_token on a given answer: the value returned and the token after
GetAuthToken(resp, tok) ==
  IF resp.exc THEN [ok |-> FALSE, token |-> tok]
  ELSE IF resp.status = 200
       THEN IF resp.body # "json" THEN [ok |-> FALSE, token |-> tok]
            ELSE IF resp.error_code = 0 THEN [ok |-> TRUE, token |-> resp.stok]
            ELSE [ok |-> FALSE, token |-> tok]
       ELSE [ok |-> FALSE, token |-> tok]

\* 'image' in content_type / 'application/json' in content_type
IsImageKind(ct) == ct \in {"image/jpeg", "image/png"}
IsJsonKind(ct) == ct \in {"application/json"}

\* the reading of the snapshot answer without the test of error_code on line 160
SnapshotBranch_IgnoresErrorCode(resp) ==
  IF resp.exc THEN "exception"
  ELSE IF resp.status # 200 THEN "failed"
  ELSE IF IsImageKind(resp.ctype) THEN "write_raw"
  ELSE IF IsJsonKind(resp.ctype)
       THEN IF resp.body # "json" THEN "exception"
            ELSE IF resp.payload \in {"missing", "empty"} THEN "failed"
            ELSE IF resp.payload \in {"badb64", "notimage"} THEN "exception"
            ELSE "save_json"
       ELSE "failed"

\* where the snapshot answer sends capture_via_http:
\* "exception", "write_raw", "save_json" or "failed"
SnapshotBranch(resp) ==
  IF resp.exc THEN "exception"
  ELSE IF resp.status # 200 THEN "failed"
  ELSE IF IsImageKind(resp.ctype) THEN "write_raw"
  ELSE IF IsJsonKind(resp.ctype)
       THEN IF resp.body # "json" THEN "exception"
            ELSE IF resp.error_code # 0 THEN "failed"
            ELSE IF resp.payload \in {"missing", "empty"} THEN "failed"
            ELSE IF resp.payload \in {"badb64", "notimage"} THEN "exception"
            ELSE "save_json"
       ELSE "failed"

\* ---------------------------------------------------------------- state
VARIABLES
  pc,           \* position of the program
  caller,       \* "capture_image" or "direct" (a strategy called on the camera)
  calls,        \* calls made so far
  method,       \* capture_image argument
  format_type,  \* argument of the running call
  token,        \* self.token of the camera the call runs on
  userToken,    \* token of the caller's own camera while capture_image runs on its own
  success,      \* capture_image local
  message,      \* capture_image local
  stratRet,     \* value returned by the strategy that ran last
  cand,         \* index of the rtsp_url of the for loop, 1..3
  attempt,      \* loop variable of range(10)
  elapsed,      \* time.time() - start_time, in ms
  ret,          \* capture_via_rtsp local
  frame,        \* capture_via_rtsp local
  frameBound,   \* ret and frame have been assigned in this call
  openStreams,  \* VideoCapture objects opened and not released
  opens,        \* streams opened in this call
  reads,        \* cap.read() calls on the current stream
  openedUrls,   \* the rtsp_urls passed to cv2.VideoCapture in this call, in order
  loginCount,   \* login requests sent in this call
  snapCount,    \* snapshot requests sent in this call
  snapToken,    \* token the last snapshot URL was built from
  lastLogin,    \* answer the last login request of this call received
  tokenAtStart, \* self.token when capture_via_http was entered
  lastSnap,     \* answer the last snapshot request of this call received
  file,         \* what this call left at output_path
  writes,       \* times this call opened output_path for writing
  rtspOutcome,  \* "none", "running", "ok", "failed", "raised" in this call
  httpOutcome,  \* same for capture_via_http
  pendingEnc,   \* encoding of the snapshot body about to be written
  result,       \* "none", "path", "None" or "raised": how capture_image ended
  printed       \* message printed on line 217

vars == <<pc, caller, calls, method, format_type, token, userToken, success, message,
          stratRet, cand, attempt, elapsed, ret, frame, frameBound, openStreams, opens, reads, openedUrls,
          loginCount, snapCount, snapToken, lastLogin, tokenAtStart, lastSnap,
          file, writes,
          rtspOutcome,
          httpOutcome, pendingEnc, result, printed>>

ciLocals == <<success, message, result, printed>>
rtspLocals == <<cand, attempt, elapsed, ret, frame, frameBound, openStreams, opens,
                reads, openedUrls>>
httpCounters == <<loginCount, snapCount, snapToken>>
httpHist == <<lastLogin, tokenAtStart, lastSnap>>
NoLogin == [exc |-> FALSE, status |-> 0, body |-> "none", error_code |-> 0, stok |-> "None"]
callVars == <<caller, calls, method, format_type, userToken>>
fileVars == <<file, writes>>

Init ==
  /\ pc = "idle"
  /\ caller = "direct"
  /\ calls = 0
  /\ method = "auto"
  /\ format_type = "PNG"
  /\ token = "None"
  /\ userToken = "None"
  /\ success = FALSE
  /\ message = NoMsg
  /\ stratRet = [ok |-> FALSE, msg |-> NoMsg]
  /\ cand = 1
  /\ attempt = 0
  /\ elapsed = 0
  /\ ret = FALSE
  /\ frame = NoFrame
  /\ frameBound = FALSE
  /\ openStreams = 0
  /\ opens = 0
  /\ reads = 0
  /\ openedUrls = <<>>
  /\ loginCount = 0
  /\ snapCount = 0
  /\ snapToken = "None"
  /\ lastLogin = NoLogin
  /\ tokenAtStart = "None"
  /\ lastSnap = SnapBase
  /\ file = "absent"
  /\ writes = 0
  /\ rtspOutcome = "none"
  /\ httpOutcome = "none"
  /\ pendingEnc = "none"
  /\ result = "none"
  /\ printed = NoMsg

\* the observations of one call start afresh
ResetCall(ro, ho) ==
  /\ stratRet' = [ok |-> FALSE, msg |-> NoMsg]
  /\ cand' = 1 /\ attempt' = 0 /\ elapsed' = 0
  /\ ret' = FALSE /\ frame' = NoFrame /\ frameBound' = FALSE
  /\ openStreams' = 0 /\ opens' = 0 /\ reads' = 0 /\ openedUrls' = <<>>
  /\ loginCount' = 0 /\ snapCount' = 0 /\ snapToken' = "None"
  /\ lastLogin' = NoLogin /\ tokenAtStart' = "None" /\ lastSnap' = SnapBase
  /\ file' = "absent" /\ writes' = 0
  /\ rtspOutcome' = ro /\ httpOutcome' = ho
  /\ pendingEnc' = "none"
  /\ result' = "none" /\ printed' = NoMsg

\* the token of the camera object the caller holds: capture_image works on a
\* camera of its own (line 191) and leaves the caller's untouched
UserCameraToken == IF caller = "capture_image" THEN userToken ELSE token

\* ------------------------------------------------- capture_image, entry
\* lines 183-198: a new TapoCamera (token None), success False, message ""
CallCaptureImage(fmt, m) ==
  /\ pc = "idle" /\ calls < MaxCalls
  /\ calls' = calls + 1
  /\ caller' = "capture_image"
  /\ method' = m /\ format_type' = fmt
  /\ token' = "None"
  /\ userToken' = UserCameraToken
  /\ success' = FALSE /\ message' = NoMsg
  /\ ResetCall("none", "none")
  /\ pc' = "ci_rtsp_check"

\* line 200 without "auto" in the list
RunsRtsp_AutoSkipsStream(m) == m \in {"rtsp"}

\* line 200: method in ["auto", "rtsp"]
RunsRtsp(m) == m \in {"auto", "rtsp"}

\* line 208 without the test of method
RunsHttp_IgnoresMethod(s, m) == ~s

\* line 208: not success and method in ["auto", "http"]
RunsHttp(s, m) == ~s /\ m \in {"auto", "http"}

\* lines 200-202
CiRtspCheck ==
  /\ pc = "ci_rtsp_check"
  /\ IF RunsRtsp(method)
     THEN /\ pc' = "rtsp_open"
          /\ rtspOutcome' = "running"
     ELSE /\ pc' = "ci_http_check"
          /\ UNCHANGED rtspOutcome
  /\ UNCHANGED <<callVars, token, ciLocals, stratRet, rtspLocals, httpCounters, httpHist,
                 fileVars, httpOutcome, pendingEnc>>

\* a strategy called on the caller's own camera object
CallRtspDirect(fmt) ==
  /\ pc = "idle" /\ calls < MaxCalls
  /\ calls' = calls + 1
  /\ caller' = "direct"
  /\ format_type' = fmt
  /\ ResetCall("running", "none")
  /\ pc' = "rtsp_open"
  /\ token' = UserCameraToken
  /\ UNCHANGED <<method, userToken, success, message>>

CallHttpDirect(fmt) ==
  /\ pc = "idle" /\ calls < MaxCalls
  /\ calls' = calls + 1
  /\ caller' = "direct"
  /\ format_type' = fmt
  /\ ResetCall("none", "running")
  /\ pc' = "http_start"
  /\ token' = UserCameraToken
  /\ UNCHANGED <<method, userToken, success, message>>

\* ------------------------------------------------------ capture_via_rtsp
\* an exception leaves the strategy and, with it, capture_image
Raise ==
  /\ pc' = "done"
  /\ result' = IF caller = "capture_image" THEN "raised" ELSE result

\* return of capture_via_rtsp
RtspReturn(ok, msg) ==
  /\ stratRet' = [ok |-> ok, msg |-> msg]
  /\ rtspOutcome' = IF ok THEN "ok" ELSE "failed"
  /\ pc' = "rtsp_return"

\* the for loop over rtsp_urls starting over after the last candidate
NextCandidate_StartsOver ==
  /\ cand' = IF cand < NumCandidates THEN cand + 1 ELSE 1
  /\ pc' = "rtsp_open"
  /\ UNCHANGED <<stratRet, rtspOutcome>>

\* end of one iteration of the for loop over rtsp_urls without a return:
\* the next candidate, or line 125 after the last one
NextCandidate ==
  IF cand < NumCandidates
  THEN /\ cand' = cand + 1
       /\ pc' = "rtsp_open"
       /\ UNCHANGED <<stratRet, rtspOutcome>>
  ELSE /\ RtspReturn(FALSE, Msg("Failed to capture via RTSP", 0, 0))
       /\ UNCHANGED cand

\* lines 102-121 once the polling loop is left with (r, f)
LoopExit(r, f) ==
  IF Usable(r, f)
  THEN /\ pc' = "rtsp_save"
       /\ UNCHANGED <<cand, openStreams, stratRet, rtspOutcome>>
  ELSE /\ openStreams' = openStreams - 1
       /\ NextCandidate

\* lines 65-69 with the first two entries of the list exchanged
RtspUrl_Swapped(i) ==
  CASE i = 1 -> [path |-> "stream2", quoted |-> FALSE]
    [] i = 2 -> [path |-> "stream1", quoted |-> FALSE]
    [] i = 3 -> [path |-> "stream1", quoted |-> TRUE]

\* lines 65-69: the stream locators, in the order of the list; quoted tells
\* whether the password went through quote()
RtspUrl(i) ==
  CASE i = 1 -> [path |-> "stream1", quoted |-> FALSE]
    [] i = 2 -> [path |-> "stream2", quoted |-> FALSE]
    [] i = 3 -> [path |-> "stream1", quoted |-> TRUE]

\* lines 74-83, 122-123: cv2.VideoCapture(rtsp_url) and cap.isOpened()
\* and start_time (line 88); lag is the time that passes up to line 92
RtspOpen(opened, lag) ==
  /\ pc = "rtsp_open"
  /\ opens' = opens + 1
  /\ openedUrls' = Append(openedUrls, RtspUrl(cand))
  /\ IF opened
     THEN /\ openStreams' = openStreams + 1
          /\ attempt' = 0 /\ elapsed' = lag /\ reads' = 0
          /\ pc' = "rtsp_read"
          /\ UNCHANGED <<cand, stratRet, rtspOutcome>>
     ELSE /\ lag = 0
          /\ NextCandidate
          /\ UNCHANGED <<openStreams, attempt, elapsed, reads>>
  /\ UNCHANGED <<callVars, token, ciLocals, ret, frame, frameBound, httpCounters, httpHist, fileVars,
                 httpOutcome, pendingEnc>>

\* the guard of one more read without the wall-clock test of line 92
MayRead_NoClock(a, e) == a < MaxAttempts

\* the guard of one more read: the loop has iterations left and line 92 is false
MayRead(a, e) == a < MaxAttempts /\ ~TimedOut(e)

\* lines 91-100, one iteration that reads: the read takes dur ms and answers rr
RtspRead(dur, rr) ==
  /\ pc = "rtsp_read"
  /\ MayRead(attempt, elapsed)
  /\ reads' = reads + 1
  /\ ret' = rr.ret /\ frame' = rr.frame /\ frameBound' = TRUE
  /\ IF Usable(rr.ret, rr.frame)
     THEN /\ elapsed' = elapsed + dur
          /\ UNCHANGED attempt
          /\ LoopExit(rr.ret, rr.frame)
     ELSE /\ elapsed' = elapsed + dur + SleepMs
          /\ attempt' = attempt + 1
          /\ IF attempt + 1 < MaxAttempts
             THEN /\ pc' = "rtsp_read"
                  /\ UNCHANGED <<cand, openStreams, stratRet, rtspOutcome>>
             ELSE LoopExit(rr.ret, rr.frame)
  /\ UNCHANGED <<callVars, token, ciLocals, opens, openedUrls, httpCounters, httpHist,
                 fileVars, httpOutcome, pendingEnc>>

\* lines 92-94 and 102: the wall-clock bound ends the polling; when no read
\* was made in this call, ret on line 102 is unbound and UnboundLocalError
\* leaves the strategy with the stream open
RtspTimeout ==
  /\ pc = "rtsp_read"
  /\ attempt < MaxAttempts /\ TimedOut(elapsed)
  /\ IF frameBound
     THEN /\ LoopExit(ret, frame)
          /\ UNCHANGED result
     ELSE /\ Raise
          /\ rtspOutcome' = "raised"
          /\ UNCHANGED <<cand, openStreams, stratRet>>
  /\ UNCHANGED <<callVars, token, success, message, printed, attempt, elapsed, ret,
                 frame, frameBound, opens, reads, openedUrls, httpCounters, httpHist,
                 fileVars, httpOutcome, pendingEnc>>

\* lines 103-117: cvtColor and fromarray (conv), then the save chain (sv)
RtspSave(conv, sv) ==
  /\ pc = "rtsp_save"
  /\ IF conv = "raise"
     THEN /\ sv = "ok"
          /\ Raise
          /\ rtspOutcome' = "raised"
          /\ UNCHANGED <<fileVars, openStreams, stratRet>>
     ELSE IF SaveFormat(format_type) = "nosave"
     THEN /\ sv = "ok"
          /\ openStreams' = openStreams - 1
          /\ RtspReturn(TRUE, Msg("Image captured via RTSP", frame.w, frame.h))
          /\ UNCHANGED <<fileVars, result>>
     ELSE IF sv = "ok"
     THEN /\ file' = SaveFormat(format_type)
          /\ writes' = writes + 1
          /\ openStreams' = openStreams - 1
          /\ RtspReturn(TRUE, Msg("Image captured via RTSP", frame.w, frame.h))
          /\ UNCHANGED result
     ELSE /\ file' = IF sv = "raise_partial" THEN "partial" ELSE file
          /\ writes' = IF sv = "raise_noopen" THEN writes ELSE writes + 1
          /\ Raise
          /\ rtspOutcome' = "raised"
          /\ UNCHANGED <<openStreams, stratRet>>
  /\ UNCHANGED <<callVars, token, success, message, printed, cand, attempt, elapsed,
                 ret, frame, frameBound, opens, reads, openedUrls, httpCounters, httpHist,
                 httpOutcome, pendingEnc>>
\* ------------------------------------------------------ capture_via_http
\* return of capture_via_http
HttpReturn(ok, msg) ==
  /\ stratRet' = [ok |-> ok, msg |-> msg]
  /\ httpOutcome' = IF ok THEN "ok" ELSE "failed"
  /\ pc' = "http_return"

\* line 129 without the login
NeedsLogin_Never(tok) == FALSE

\* line 129 without the test of self.token: every call logs in
NeedsLogin_Always(tok) == TRUE

\* line 129, first operand: not self.token decides whether a login is sent
NeedsLogin(tok) == ~Truthy(tok)

\* line 129
HttpStart ==
  /\ pc = "http_start"
  /\ pc' = IF NeedsLogin(token) THEN "http_login" ELSE "http_snap"
  /\ tokenAtStart' = token
  /\ UNCHANGED <<callVars, token, ciLocals, stratRet, rtspLocals, httpCounters,
                 lastLogin, lastSnap, fileVars, rtspOutcome, httpOutcome, pendingEnc>>

\* lines 129-130 with _get_auth_token (lines 35-60) on the answer resp
HttpLogin(resp) ==
  /\ pc = "http_login"
  /\ loginCount' = loginCount + 1
  /\ lastLogin' = resp
  /\ token' = GetAuthToken(resp, token).token
  /\ IF GetAuthToken(resp, token).ok
     THEN /\ pc' = "http_snap"
          /\ UNCHANGED <<stratRet, httpOutcome>>
     ELSE HttpReturn(FALSE, Msg("Authentication failed", 0, 0))
  /\ UNCHANGED <<callVars, ciLocals, rtspLocals, snapCount, snapToken, tokenAtStart,
                 lastSnap, fileVars, rtspOutcome, pendingEnc>>

\* lines 133-162 and 178-181: the snapshot request and the reading of its answer
HttpSnapshot(resp) ==
  /\ pc = "http_snap"
  /\ snapCount' = snapCount + 1
  /\ snapToken' = token
  /\ lastSnap' = resp
  /\ CASE SnapshotBranch(resp) = "exception" ->
            /\ HttpReturn(FALSE, Msg("HTTP capture failed", 0, 0))
            /\ UNCHANGED pendingEnc
       [] SnapshotBranch(resp) = "failed" ->
            /\ HttpReturn(FALSE, Msg("HTTP API failed", resp.status, 0))
            /\ UNCHANGED pendingEnc
       [] SnapshotBranch(resp) = "write_raw" ->
            /\ pc' = "http_write"
            /\ pendingEnc' = resp.enc
            /\ UNCHANGED <<stratRet, httpOutcome>>
       [] SnapshotBranch(resp) = "save_json" ->
            /\ pc' = "http_save"
            /\ pendingEnc' = resp.enc
            /\ UNCHANGED <<stratRet, httpOutcome>>
  /\ UNCHANGED <<callVars, token, ciLocals, rtspLocals, loginCount, lastLogin,
                 tokenAtStart, fileVars, rtspOutcome>>

\* what the image branch stores: the body as received
RawWritten(bodyEnc, fmt) == bodyEnc

\* lines 153-155: open(output_path, 'wb') and f.write(response.content);
\* "raise_noopen" is a failing open, "raise_partial" a failing write
HttpWriteRaw(out) ==
  /\ pc = "http_write"
  /\ CASE out = "ok" ->
            /\ file' = RawWritten(pendingEnc, format_type)
            /\ writes' = writes + 1
            /\ HttpReturn(TRUE, Msg("Image captured via HTTP API", 0, 0))
       [] out = "raise_noopen" ->
            /\ UNCHANGED fileVars
            /\ HttpReturn(FALSE, Msg("HTTP capture failed", 0, 0))
       [] out = "raise_partial" ->
            /\ file' = "partial"
            /\ writes' = writes + 1
            /\ HttpReturn(FALSE, Msg("HTTP capture failed", 0, 0))
  /\ UNCHANGED <<callVars, token, ciLocals, rtspLocals, httpCounters, httpHist, rtspOutcome,
                 pendingEnc>>

\* lines 164-176: the decoded payload goes through the save chain
HttpSaveJson(out) ==
  /\ pc = "http_save"
  /\ IF SaveFormat(format_type) = "nosave"
     THEN /\ out = "ok"
          /\ UNCHANGED fileVars
          /\ HttpReturn(TRUE, Msg("Image captured via HTTP API", 0, 0))
     ELSE IF out = "ok"
     THEN /\ file' = SaveFormat(format_type)
          /\ writes' = writes + 1
          /\ HttpReturn(TRUE, Msg("Image captured via HTTP API", 0, 0))
     ELSE /\ file' = IF out = "raise_partial" THEN "partial" ELSE file
          /\ writes' = IF out = "raise_noopen" THEN writes ELSE writes + 1
          /\ HttpReturn(FALSE, Msg("HTTP capture failed", 0, 0))
  /\ UNCHANGED <<callVars, token, ciLocals, rtspLocals, httpCounters, httpHist, rtspOutcome,
                 pendingEnc>>

\* ------------------------------------------------- capture_image, rest
\* lines 202-206
CiAfterRtsp ==
  /\ pc = "rtsp_return" /\ caller = "capture_image"
  /\ success' = stratRet.ok
  /\ message' = stratRet.msg
  /\ IF stratRet.ok
     THEN /\ result' = "path"
          /\ pc' = "done"
     ELSE /\ pc' = "ci_http_check"
          /\ UNCHANGED result
  /\ UNCHANGED <<callVars, token, printed, stratRet, rtspLocals, httpCounters, httpHist,
                 fileVars, rtspOutcome, httpOutcome, pendingEnc>>

\* line 208
CiHttpCheck ==
  /\ pc = "ci_http_check"
  /\ IF RunsHttp(success, method)
     THEN /\ pc' = "http_start"
          /\ httpOutcome' = "running"
     ELSE /\ pc' = "ci_fail"
          /\ UNCHANGED httpOutcome
  /\ UNCHANGED <<callVars, token, ciLocals, stratRet, rtspLocals, httpCounters, httpHist,
                 fileVars, rtspOutcome, pendingEnc>>

\* lines 210-214 with the message of capture_via_http dropped
CiAfterHttp_KeepsMessage ==
  /\ pc = "http_return" /\ caller = "capture_image"
  /\ success' = stratRet.ok
  /\ IF stratRet.ok
     THEN /\ result' = "path"
          /\ pc' = "done"
     ELSE /\ pc' = "ci_fail"
          /\ UNCHANGED result
  /\ UNCHANGED <<callVars, token, message, printed, stratRet, rtspLocals, httpCounters,
                 httpHist, fileVars, rtspOutcome, httpOutcome, pendingEnc>>

\* lines 210-214
CiAfterHttp ==
  /\ pc = "http_return" /\ caller = "capture_image"
  /\ success' = stratRet.ok
  /\ message' = stratRet.msg
  /\ IF stratRet.ok
     THEN /\ result' = "path"
          /\ pc' = "done"
     ELSE /\ pc' = "ci_fail"
          /\ UNCHANGED result
  /\ UNCHANGED <<callVars, token, printed, stratRet, rtspLocals, httpCounters, httpHist,
                 fileVars, rtspOutcome, httpOutcome, pendingEnc>>

\* lines 216-218
CiFail ==
  /\ pc = "ci_fail"
  /\ IF ~success
     THEN /\ printed' = message
          /\ result' = "None"
     ELSE /\ result' = "None"
          /\ UNCHANGED printed
  /\ pc' = "done"
  /\ UNCHANGED <<callVars, token, success, message, stratRet, rtspLocals,
                 httpCounters, httpHist, fileVars, rtspOutcome, httpOutcome, pendingEnc>>

\* a strategy called directly hands its result to its caller
DirectReturn ==
  /\ pc \in {"rtsp_return", "http_return"} /\ caller = "direct"
  /\ pc' = "done"
  /\ UNCHANGED <<callVars, token, ciLocals, stratRet, rtspLocals, httpCounters, httpHist,
                 fileVars, rtspOutcome, httpOutcome, pendingEnc>>

\* the call is over; the driver may make the next one
Finish ==
  /\ pc = "done"
  /\ pc' = "idle"
  /\ UNCHANGED <<callVars, token, ciLocals, stratRet, rtspLocals, httpCounters, httpHist,
                 fileVars, rtspOutcome, httpOutcome, pendingEnc>>

Next ==
  \/ \E fmt \in Formats, m \in Methods : CallCaptureImage(fmt, m)
  \/ \E fmt \in Formats : CallRtspDirect(fmt)
  \/ \E fmt \in Formats : CallHttpDirect(fmt)
  \/ CiRtspCheck
  \/ \E opened \in BOOLEAN, lag \in StartLags : RtspOpen(opened, lag)
  \/ \E dur \in ReadDurations, rr \in ReadResults : RtspRead(dur, rr)
  \/ RtspTimeout
  \/ \E conv \in ConvertOutcomes, sv \in SaveOutcomes : RtspSave(conv, sv)
  \/ CiAfterRtsp
  \/ CiHttpCheck
  \/ HttpStart
  \/ \E resp \in LoginResponses : HttpLogin(resp)
  \/ \E resp \in SnapResponses : HttpSnapshot(resp)
  \/ \E out \in WriteOutcomes : HttpWriteRaw(out)
  \/ \E out \in SaveOutcomes : HttpSaveJson(out)
  \/ CiAfterHttp
  \/ CiFail
  \/ DirectReturn
  \/ Finish

Spec == Init /\ [][Next]_vars

\* the steps of the program, as opposed to the calls its user makes
ProgramStep ==
  \/ CiRtspCheck
  \/ \E opened \in BOOLEAN, lag \in StartLags : RtspOpen(opened, lag)
  \/ \E dur \in ReadDurations, rr \in ReadResults : RtspRead(dur, rr)
  \/ RtspTimeout
  \/ \E conv \in ConvertOutcomes, sv \in SaveOutcomes : RtspSave(conv, sv)
  \/ CiAfterRtsp
  \/ CiHttpCheck
  \/ HttpStart
  \/ \E resp \in LoginResponses : HttpLogin(resp)
  \/ \E resp \in SnapResponses : HttpSnapshot(resp)
  \/ \E out \in WriteOutcomes : HttpWriteRaw(out)
  \/ \E out \in SaveOutcomes : HttpSaveJson(out)
  \/ CiAfterHttp
  \/ CiFail
  \/ DirectReturn
  \/ Finish

\* a single thread of control whose external operations all return (timeouts
\* of lines 51, 78 and 145): a program that can take a step takes one
FairSpec == Init /\ [][Next]_vars /\ WF_vars(ProgramStep)

TypeOK ==
  /\ calls \in 0..MaxCalls
  /\ cand \in 1..NumCandidates
  /\ attempt \in 0..MaxAttempts
  /\ openStreams \in 0..1
  /\ token \in {"None", "", "abc123"}
  /\ file \in {"absent", "partial", "PNG", "TIFF", "BMP", "JPEG"}

\* ================================================================ claims
InCaptureImage == caller = "capture_image" /\ calls > 0

\* C1: in capture_image with method=auto, once capture_via_rtsp has returned
\* success the HTTP strategy is never entered and no login or snapshot request
\* is sent; and the HTTP strategy is entered only after the streaming strategy
\* has run and returned failure.
C1_StreamSuccessSkipsHttp ==
  (InCaptureImage /\ method = "auto") =>
    /\ rtspOutcome = "ok" =>
         (httpOutcome = "none" /\ loginCount = 0 /\ snapCount = 0)
    /\ (httpOutcome # "none" \/ loginCount > 0 \/ snapCount > 0) =>
         (rtspOutcome = "failed" /\ opens > 0)

C1_Witness ==
  /\ InCaptureImage /\ method = "auto"
  /\ rtspOutcome = "ok" /\ result = "path" /\ pc = "done"
  /\ httpOutcome = "none"

\* C2: in capture_image with method="rtsp" no login or snapshot request is ever
\* sent, and when capture_via_rtsp returns failure the invocation returns None.
C2_StreamOnlyNeverFallsBack ==
  (InCaptureImage /\ method = "rtsp") =>
    /\ httpOutcome = "none" /\ loginCount = 0 /\ snapCount = 0
    /\ (rtspOutcome = "failed" /\ pc \in {"done", "idle"}) => result = "None"
    /\ rtspOutcome = "failed" => result # "path"

C2_Witness ==
  /\ InCaptureImage /\ method = "rtsp"
  /\ rtspOutcome = "failed" /\ result = "None" /\ pc = "done"
  /\ opens = 3

\* the login failures C3 names: a transport error, a status other than 200,
\* or a body whose error_code is not 0
LoginFailed(resp) ==
  \/ resp.exc
  \/ resp.status # 200
  \/ (resp.body = "json" /\ resp.error_code # 0)

\* C3: when capture_via_http was entered without a token and its login request
\* failed, the strategy has returned failure, the token is still absent and no
\* snapshot request was sent.
C3_FailedLoginAborts ==
  (loginCount > 0 /\ LoginFailed(lastLogin)) =>
    /\ httpOutcome = "failed" /\ ~stratRet.ok
    /\ stratRet.msg.text = "Authentication failed"
    /\ token = tokenAtStart /\ ~Truthy(token)
    /\ tokenAtStart = "None" => token = "None"
    /\ snapCount = 0

C3_Witness ==
  /\ loginCount = 1 /\ tokenAtStart = "None"
  /\ lastLogin.status = 200 /\ lastLogin.body = "json" /\ lastLogin.error_code # 0
  /\ pc = "http_return" /\ snapCount = 0

\* C4: every capture_image that returns a path has written exactly one
\* complete output file, whatever format_type is.
C4_SuccessWritesOneFile ==
  (InCaptureImage /\ result = "path") =>
    (writes = 1 /\ file \notin {"absent", "partial"})

\* C5: with a format_type outside PNG, TIFF and BMP, capture_image opens no
\* stream and sends no login or snapshot request.
C5_UnsupportedFormatNoNetwork ==
  (InCaptureImage /\ Upper(format_type) \notin {"PNG", "TIFF", "BMP"}) =>
    (opens = 0 /\ loginCount = 0 /\ snapCount = 0 /\ result # "path")

\* C6: the output file of a capture_image that returned a path is encoded in
\* the requested format.
C6_FileInRequestedFormat ==
  (InCaptureImage /\ result = "path" /\ file # "absent") =>
    file = Upper(format_type)

\* C7: no strategy lets an exception reach its caller, so capture_image never
\* ends by an exception, and in method=auto a streaming strategy that got a
\* usable frame and did not succeed is followed by the HTTP strategy.
C7_StrategiesNeverRaise ==
  /\ rtspOutcome # "raised" /\ httpOutcome # "raised" /\ result # "raised"
  /\ (InCaptureImage /\ method = "auto" /\ pc = "done" /\ rtspOutcome # "ok")
       => httpOutcome # "none"

\* C8: a capture_image that returned failure, and a strategy that returned
\* failure, left nothing at the output path.
C8_FailureLeavesNoFile ==
  /\ (InCaptureImage /\ result = "None") => file = "absent"
  /\ (pc \in {"rtsp_return", "http_return"} /\ ~stratRet.ok) => file = "absent"

HttpDiagnostics == {"Authentication failed", "HTTP API failed", "HTTP capture failed"}

\* C9: when capture_image returns failure, the message it reports is the one of
\* the strategy attempted last: an HTTP diagnostic when the HTTP strategy ran,
\* the streaming diagnostic when only the streaming strategy ran; with
\* method=auto and a login that met a transport error it is "Authentication
\* failed".
C9_LastDiagnosticReported ==
  (InCaptureImage /\ result = "None") =>
    /\ httpOutcome # "none" =>
         (printed.text \in HttpDiagnostics /\ printed = stratRet.msg)
    /\ (httpOutcome = "none" /\ rtspOutcome # "none") =>
         printed.text = "Failed to capture via RTSP"
    /\ (method = "auto" /\ loginCount = 1 /\ lastLogin.exc) =>
         printed.text = "Authentication failed"

C9_Witness ==
  /\ InCaptureImage /\ method = "auto" /\ result = "None"
  /\ opens = 3 /\ reads = 0 /\ rtspOutcome = "failed"
  /\ loginCount = 1 /\ lastLogin.exc
  /\ printed.text = "Authentication failed"

\* C10: on one opened stream at most 10 reads are made, a read starts only
\* while no more than 15 seconds have passed since polling began, and no read
\* follows a read that returned a usable frame.
C10_PollingBounded ==
  /\ [](reads <= 10)
  /\ [][reads' = reads + 1 =>
          /\ reads < 10
          /\ elapsed <= 15000
          /\ reads > 0 => ~(ret /\ ~frame.isNone /\ frame.h * frame.w > 0)]_vars

\* polling ended by the clock before the tenth read, and the next candidate is up
C10_Witness ==
  /\ pc = "rtsp_open" /\ cand > 1
  /\ reads > 0 /\ reads < 10 /\ elapsed > 15000

HttpReturned == httpOutcome \in {"ok", "failed"}

\* C11: a call of capture_via_http sends a login request exactly when
\* self.token holds no token (None or empty) as the call starts; with a token
\* it sends the snapshot request at once; no call sends more than one login
\* request or more than one snapshot request.
C11_LoginIffNoToken ==
  /\ loginCount <= 1 /\ snapCount <= 1
  /\ loginCount = 1 => ~Truthy(tokenAtStart)
  /\ (pc \in {"http_snap", "http_write", "http_save"} \/ HttpReturned) =>
       (loginCount = 1 <=> ~Truthy(tokenAtStart))
  /\ (HttpReturned /\ Truthy(tokenAtStart)) => (loginCount = 0 /\ snapCount = 1)

C11_Witness ==
  /\ pc = "http_return" /\ tokenAtStart = "abc123"
  /\ loginCount = 0 /\ snapCount = 1

\* a step after which token is that of another TapoCamera: capture_image
\* builds its own (line 191), a direct call goes back to the caller's
NewCamera == calls' = calls + 1 /\ (caller' = "capture_image" \/ caller = "capture_image")

\* C12: on one TapoCamera, once self.token holds a token no step changes it
\* and no login request is sent, also in calls whose snapshot request fails.
C12_CachedTokenKept ==
  /\ [][(Truthy(token) /\ ~NewCamera) =>
          (token' = token /\ loginCount' # loginCount + 1 /\ pc' # "http_login")]_vars
  /\ [][Truthy(UserCameraToken) => UserCameraToken' = UserCameraToken]_vars

C12_Witness ==
  /\ calls = 2 /\ caller = "direct" /\ pc = "http_return"
  /\ tokenAtStart = "abc123" /\ token = "abc123"
  /\ ~stratRet.ok /\ snapCount = 1 /\ loginCount = 0

\* the order C13 names: stream1, stream2, stream1 with the password escaped
ExpectedUrls ==
  << [path |-> "stream1", quoted |-> FALSE],
     [path |-> "stream2", quoted |-> FALSE],
     [path |-> "stream1", quoted |-> TRUE] >>

\* C13: the streams capture_via_rtsp opens are a prefix of stream1, stream2,
\* stream1 with escaped password; a candidate that does not open or gives no
\* usable frame is followed by the next one; once a usable frame is held no
\* further stream is opened; failure is returned only after all three.
C13_CandidateOrder ==
  /\ [](/\ Len(openedUrls) <= 3 /\ Len(openedUrls) = opens
        /\ \A i \in 1..Len(openedUrls) : openedUrls[i] = ExpectedUrls[i]
        /\ rtspOutcome = "failed" => Len(openedUrls) = 3
        /\ pc = "rtsp_open" => Len(openedUrls) = cand - 1
        /\ rtspOutcome = "ok" =>
             (ret /\ ~frame.isNone /\ frame.h * frame.w > 0))
  /\ [][(pc \in {"rtsp_open", "rtsp_read"} /\ pc' = "rtsp_open") =>
          (cand < 3 /\ cand' = cand + 1 /\ openStreams' = 0)]_vars
  /\ [][(pc = "rtsp_save" \/ rtspOutcome \in {"ok", "raised"}) =>
          (openedUrls' = openedUrls \/ openedUrls' = <<>>)]_vars

\* the second candidate gave the frame after the first one failed to open
C13_Witness ==
  /\ pc = "rtsp_return" /\ rtspOutcome = "ok"
  /\ openedUrls = <<ExpectedUrls[1], ExpectedUrls[2]>>

\* the snapshot answers C14 names: a status other than 200, a content kind that
\* is neither image nor JSON, a JSON error_code other than 0, or a JSON body
\* whose payload field is missing or empty
BadSnapshot(resp) ==
  /\ ~resp.exc
  /\ \/ resp.status # 200
     \/ resp.ctype \notin {"image/jpeg", "image/png", "application/json"}
     \/ /\ resp.ctype = "application/json" /\ resp.body = "json"
        /\ (resp.error_code # 0 \/ resp.payload \in {"missing", "empty"})

\* C14: after such a snapshot answer capture_via_http has returned failure
\* with "HTTP API failed" and the call has written no output file.
C14_BadSnapshotFails ==
  (snapCount > 0 /\ BadSnapshot(lastSnap)) =>
    /\ httpOutcome = "failed" /\ ~stratRet.ok
    /\ stratRet.msg = Msg("HTTP API failed", lastSnap.status, 0)
    /\ pc \notin {"http_write", "http_save"}
    /\ writes = 0 /\ file = "absent"
    /\ result # "path"

C14_Witness ==
  /\ pc = "http_return" /\ snapCount = 1
  /\ lastSnap.status = 200 /\ lastSnap.ctype = "application/json"
  /\ lastSnap.error_code # 0 /\ lastSnap.payload = "image"
  /\ ~stratRet.ok /\ file = "absent"

InRtsp == pc \in {"rtsp_open", "rtsp_read", "rtsp_save"}

\* C15: no step of capture_via_rtsp changes self.token, and whatever the
\* token is, a stream may open or not and a read may return any result; the
\* token of a camera changes only in a login answered with status 200 and
\* error_code 0; capture_image with method="http" opens no stream.
C15_TokenAndStreamApart ==
  /\ [][InRtsp => token' = token]_vars
  /\ [][(token' # token /\ ~NewCamera) =>
          /\ pc = "http_login"
          /\ ~lastLogin'.exc /\ lastLogin'.status = 200
          /\ lastLogin'.body = "json" /\ lastLogin'.error_code = 0]_vars
  /\ [](pc = "rtsp_open" => \A o \in BOOLEAN : ENABLED RtspOpen(o, 0))
  /\ []((pc = "rtsp_read" /\ attempt < 10 /\ elapsed <= 15000) =>
          \A rr \in ReadResults : ENABLED RtspRead(0, rr))
  /\ []((InCaptureImage /\ method = "http") =>
          (opens = 0 /\ openedUrls = <<>> /\ rtspOutcome = "none"))

\* the streaming strategy succeeded on a camera that holds a token
C15_Witness ==
  /\ caller = "direct" /\ pc = "rtsp_return" /\ rtspOutcome = "ok"
  /\ token = "abc123"

\* C16: a call of capture_image makes at most 3 stream opens, 10 reads on each
\* opened stream, 1 login request and 1 snapshot request, and it ends: with a
\* path, with None, or with the exception of C7.
C16_BoundedAndTerminates ==
  /\ [](opens <= 3 /\ reads <= 10 /\ loginCount <= 1 /\ snapCount <= 1)
  /\ (pc = "ci_rtsp_check") ~> (pc = "done" /\ result \in {"path", "None", "raised"})

\* a call that used up every bound on the streaming side and then went to HTTP
C16_Witness ==
  /\ InCaptureImage /\ pc = "done" /\ result = "None"
  /\ opens = 3 /\ reads = 10 /\ loginCount = 1 /\ snapCount = 1

\* C17: whenever a snapshot request was sent, its URL was built from a token
\* that is present (not None).
C17_SnapshotHasToken ==
  snapCount > 0 => snapToken # "None"

\* C18: at most one stream is open at a time; none is open when the next
\* candidate is about to be opened, nor once capture_via_rtsp is over, whether
\* it ended in success or in failure.
C18_StreamsReleased ==
  /\ openStreams <= 1
  /\ pc = "rtsp_open" => openStreams = 0
  /\ rtspOutcome \in {"ok", "failed", "raised"} => openStreams = 0
====
